---- MODULE Spec2Model ----
(***************************************************************************)
(* Model of the Telegram API gateway in src/main.py: the Fernet token      *)
(* codec (Cryptography), the response normaliser (PyrogramResponse), the   *)
(* HTTP handlers and the lifespan wrapper that owns the Pyrogram client.   *)
(*                                                                         *)
(* JSON values are tagged records [t |-> tag, v |-> value]:                *)
(*   "str"  a string            "int"  an integer       "none" None/null   *)
(*   "enum" an Enum member (only before replace_enum_types_with_names)     *)
(*   "dict" a Python dict: a sequence of <<key, value>> pairs in insertion *)
(*          order, keys unique                                             *)
(*   "list" a Python list: a sequence of values                            *)
(*   "url"  the string built by file_id_: host + "/media/" + token         *)
(*   "stream" the body of a StreamingResponse over client.stream_media     *)
(* A key is the sequence of its lowercase words, joined by "_" in the      *)
(* program: "small_file_id" is <<"small", "file", "id">>.                  *)
(***************************************************************************)
EXTENDS Integers, Sequences, FiniteSets, TLC

VARIABLES
    now,        \* int(time()): the wall clock in seconds
    ticks,      \* how many times the clock has advanced
    minted,     \* the media token most recently minted by file_id_
    data,       \* the tree handed to process_file_ids
    result,     \* what process_file_ids returned for data
    lifespan,   \* the position of lifespan_wrapper
    client,     \* the state of the Pyrogram client
    starts,     \* how many times client.start() completed
    stops,      \* how many times client.stop() completed
    handled,    \* how many requests the handlers have answered
    req,        \* the request most recently handled
    backend,    \* what the backend returned or raised for req
    resp        \* the HTTP response given to req

vars == <<now, ticks, minted, data, result, lifespan, client, starts, stops,
          handled, req, backend, resp>>

----------------------------------------------------------------------------
(* Bounds of the model *)

MaxTicks == 3
MaxNodes == 5
MaxMsgs == 2
MaxHandled == 2

----------------------------------------------------------------------------
(* JSON values *)

Str(s) == [t |-> "str", v |-> s]
Num(n) == [t |-> "int", v |-> n]
Enum(name) == [t |-> "enum", v |-> name]
Dict(items) == [t |-> "dict", v |-> items]
List(items) == [t |-> "list", v |-> items]
None == [t |-> "none", v |-> <<>>]

IsDict(x) == x.t = "dict"
IsList(x) == x.t = "list"

\* bool(x) for the values a tree holds
Truthy(x) ==
    CASE x.t = "none" -> FALSE
      [] x.t = "str" -> x.v # ""
      [] x.t = "int" -> x.v # 0
      [] x.t \in {"dict", "list"} -> x.v # <<>>
      [] OTHER -> TRUE

DictKeys(items) == {items[i][1] : i \in 1..Len(items)}
HasKey(items, key) == key \in DictKeys(items)

\* _dict.get(key, default)
DictGet(items, key, default) ==
    IF HasKey(items, key)
    THEN LET i == CHOOSE j \in 1..Len(items) : items[j][1] = key IN items[i][2]
    ELSE default

\* new_dict[key] = value: an existing key keeps its place, a new key goes last
DictSet(items, key, value) ==
    IF HasKey(items, key)
    THEN [i \in 1..Len(items) |->
            IF items[i][1] = key THEN <<key, value>> ELSE items[i]]
    ELSE Append(items, <<key, value>>)

\* del obj.attr
DictDel(items, key) == SelectSeq(items, LAMBDA e : e[1] # key)

----------------------------------------------------------------------------
(* Keys and their order *)

\* the words keys are made of, in str order
WordsSorted == <<"big", "chat", "file", "id", "mime", "photo", "small",
                 "text", "type", "url">>

WordRank(w) == CHOOSE i \in 1..Len(WordsSorted) : WordsSorted[i] = w

\* a < b for str keys: "_" sorts below every lowercase letter, so comparing the
\* joined strings is comparing the word sequences word by word
RECURSIVE KeyLess(_, _)
KeyLess(a, b) ==
    IF a = <<>> THEN b # <<>>
    ELSE IF b = <<>> THEN FALSE
    ELSE IF Head(a) = Head(b) THEN KeyLess(Tail(a), Tail(b))
    ELSE WordRank(Head(a)) < WordRank(Head(b))

FileIdKey == <<"file", "id">>
FileUrlKey == <<"file", "url">>
MimeTypeKey == <<"mime", "type">>

\* key.endswith("_file_id")
EndsWithFileId(key) ==
    /\ Len(key) >= 3
    /\ SubSeq(key, Len(key) - 1, Len(key)) = FileIdKey

\* key.replace("_file_id", "_" + to): every occurrence, left to right
ReplaceFileId(key, to) ==
    [i \in 1..Len(key) |->
        IF i >= 3 /\ key[i] = "id" /\ key[i - 1] = "file"
        THEN to[2]
        ELSE IF i >= 2 /\ i < Len(key) /\ key[i] = "file" /\ key[i + 1] = "id"
        THEN to[1]
        ELSE key[i]]

IsMediaKey(key) == key = FileIdKey \/ EndsWithFileId(key)
NewKey(key) == IF EndsWithFileId(key) THEN ReplaceFileId(key, FileUrlKey) ELSE FileUrlKey
MimeKey(key) == IF EndsWithFileId(key) THEN ReplaceFileId(key, MimeTypeKey) ELSE MimeTypeKey

\* sorted(new_dict.items()): the keys are unique, so the order is the key order
RECURSIVE SortedInsert(_, _)
SortedInsert(sorted, e) ==
    IF sorted = <<>> THEN <<e>>
    ELSE IF KeyLess(e[1], Head(sorted)[1]) THEN <<e>> \o sorted
    ELSE <<Head(sorted)>> \o SortedInsert(Tail(sorted), e)

RECURSIVE SortItems(_)
SortItems(items) ==
    IF items = <<>> THEN <<>>
    ELSE SortedInsert(SortItems(SubSeq(items, 1, Len(items) - 1)), items[Len(items)])

----------------------------------------------------------------------------
(* json.dumps / json.loads *)

RECURSIVE SumLen(_)
SumLen(words) == IF words = <<>> THEN 0 ELSE Len(Head(words)) + SumLen(Tail(words))

\* len("_".join(words))
KeyLen(key) == SumLen(key) + Len(key) - 1

RECURSIVE JsonLen(_)
RECURSIVE JsonItemsLen(_, _)
\* len(json.dumps(x)) with the default separators ", " and ": "
JsonLen(x) ==
    CASE x.t = "str" -> Len(x.v) + 2
      [] x.t = "none" -> 4
      [] x.t = "int" -> IF x.v < 10 THEN 1 ELSE 2
      [] x.t = "dict" -> 2 + JsonItemsLen(x.v, TRUE)
      [] x.t = "list" -> 2 + JsonItemsLen(x.v, FALSE)

JsonItemsLen(items, keyed) ==
    IF items = <<>> THEN 0
    ELSE (IF keyed THEN KeyLen(Head(items)[1]) + 4 + JsonLen(Head(items)[2])
                   ELSE JsonLen(Head(items)))
         + (IF Len(items) > 1 THEN 2 ELSE 0)
         + JsonItemsLen(Tail(items), keyed)

\* json.dumps(x): the text, as its length and the document it spells
JsonDumps(x) == [chars |-> JsonLen(x), doc |-> x]

\* json.loads(text)
JsonLoads(text) == text.doc

----------------------------------------------------------------------------
(* Cryptography: Fernet tokens *)

TTL == 3600

CryptKey == "CRYPT_KEY"

InvalidToken == [t |-> "InvalidToken", v |-> <<>>]
NoToken == [t |-> "NoToken", v |-> <<>>]

\* len of the binary Fernet token: version, timestamp, IV, AES-CBC blocks
\* of the PKCS7-padded plaintext, HMAC
FernetBytes(plainLen) == 1 + 8 + 16 + 16 * (plainLen \div 16 + 1) + 32

\* fernet.encrypt_at_time(_input.encode(), t).decode(): the urlsafe base64 text
\* of the token, as its alphabet characters (sym) and trailing "=" (pad)
EncryptAtTime(plain, t) ==
    LET n == FernetBytes(plain.chars)
        p == (3 - (n % 3)) % 3
    IN [ts |-> t, key |-> CryptKey, sig |-> TRUE, plain |-> plain,
        bytes |-> n, sym |-> 4 * ((n + 2) \div 3) - p, pad |-> p]

\* .replace("=", "")
StripPadding(tok) == [tok EXCEPT !.pad = 0]

\* Cryptography.encrypt at time() = t
Encrypt(plain, t) == StripPadding(EncryptAtTime(plain, t))

\* Cryptography.encrypt_json
EncryptJson(x, t) == Encrypt(JsonDumps(x), t)

\* the token passed to fernet.decrypt as received, no "=" re-added
AddPaddingNone(tok) == tok

\* _input.encode() + b'=' * (-len(_input) % 4)
AddPadding(tok) == [tok EXCEPT !.pad = @ + ((0 - (tok.sym + tok.pad)) % 4)]

\* base64.urlsafe_b64decode accepts the text
Base64Decodes(tok) ==
    /\ tok.sym % 4 # 1
    /\ tok.pad >= ((0 - tok.sym) % 4)

\* fernet.decrypt called without ttl: no token ever expires
ExpiredNever(tok, t) == FALSE

\* timestamp + ttl < current_time
Expired(tok, t) == tok.ts + TTL < t

\* fernet.decrypt(token, ttl=3600) at time() = t: the plaintext or InvalidToken
FernetDecrypt(tok, t) ==
    IF ~Base64Decodes(tok) THEN InvalidToken
    ELSE IF (tok.sym * 3) \div 4 # tok.bytes THEN InvalidToken
    ELSE IF Expired(tok, t) THEN InvalidToken
    ELSE IF ~tok.sig \/ tok.key # CryptKey THEN InvalidToken
    ELSE tok.plain

\* Cryptography.decrypt at time() = t
Decrypt(tok, t) == FernetDecrypt(AddPadding(tok), t)

\* Cryptography.decrypt_json
DecryptJson(tok, t) ==
    LET plain == Decrypt(tok, t)
    IN IF plain = InvalidToken THEN InvalidToken ELSE JsonLoads(plain)

----------------------------------------------------------------------------
(* PyrogramResponse *)

\* PyrogramResponse.__init__: self.host
Origin(hostname) ==
    IF hostname = "localhost" THEN "http://localhost:8000" ELSE "https://" \o hostname

\* PyrogramResponse.file_id_ at time() = t; mime_type defaults to ""
file_id_(origin, file_id, mime_type, t) ==
    LET d0 == <<<<FileIdKey, file_id>>>>
        d1 == IF Truthy(mime_type) THEN DictSet(d0, MimeTypeKey, mime_type) ELSE d0
    IN [t |-> "url", v |-> [host |-> origin, token |-> EncryptJson(Dict(d1), t)]]

RECURSIVE process_dict(_, _, _)
RECURSIVE process_dict_loop(_, _, _, _, _)
RECURSIVE process_list(_, _, _)
RECURSIVE process_list_loop(_, _, _, _, _)

\* the body of `for key, value in _dict.items()`, from the i-th item on, and
\* the sort that follows the loop
process_dict_loop(_dict, i, new_dict, origin, t) ==
    IF i > Len(_dict) THEN Dict(SortItems(new_dict))
    ELSE
        LET key == _dict[i][1]
            value == _dict[i][2]
            mime == DictGet(_dict, MimeKey(key), Str(""))
            url == IF Truthy(mime) THEN file_id_(origin, value, mime, t)
                                   ELSE file_id_(origin, value, Str(""), t)
            d1 == IF IsMediaKey(key) THEN DictSet(new_dict, NewKey(key), url)
                                     ELSE new_dict
            d2 == DictSet(d1, key,
                    IF IsDict(value) THEN process_dict(value.v, origin, t)
                    ELSE IF IsList(value) THEN process_list(value.v, origin, t)
                    ELSE value)
        IN process_dict_loop(_dict, i + 1, d2, origin, t)

process_dict(_dict, origin, t) == process_dict_loop(_dict, 1, <<>>, origin, t)

\* the body of `for item in _list`, from the i-th item on: the return sits
\* inside the loop, and a loop that never runs falls off the function's end
process_list_loop(_list, i, new_list, origin, t) ==
    IF i > Len(_list) THEN None
    ELSE
        LET item == _list[i]
            appended == Append(new_list,
                    IF IsDict(item) THEN process_dict(item.v, origin, t)
                    ELSE IF IsList(item) THEN process_list(item.v, origin, t)
                    ELSE item)
        IN List(appended)

process_list(_list, origin, t) == process_list_loop(_list, 1, <<>>, origin, t)

\* PyrogramResponse.process_file_ids
process_file_ids(x, origin, t) ==
    IF IsDict(x) THEN process_dict(x.v, origin, t)
    ELSE IF IsList(x) THEN process_list(x.v, origin, t)
    ELSE None

\* Enum.name.title()
Title(name) ==
    CASE name = "PRIVATE" -> "Private"
      [] name = "BOT" -> "Bot"
      [] name = "GROUP" -> "Group"
      [] name = "SUPERGROUP" -> "Supergroup"
      [] name = "CHANNEL" -> "Channel"

RECURSIVE replace_enum_types_with_names(_)
\* PyrogramResponse.replace_enum_types_with_names; a Pyrogram object is the
\* dict of its public attributes
replace_enum_types_with_names(obj) ==
    IF IsDict(obj)
    THEN Dict([i \in 1..Len(obj.v) |->
            <<obj.v[i][1],
              IF obj.v[i][2].t = "enum" THEN Str(Title(obj.v[i][2].v))
              ELSE replace_enum_types_with_names(obj.v[i][2])>>])
    ELSE IF IsList(obj)
    THEN List([i \in 1..Len(obj.v) |-> replace_enum_types_with_names(obj.v[i])])
    ELSE obj

RECURSIVE ObjectToJson(_)
\* jsonpickle.decode(str(obj)): Object.__str__ leaves out the attributes that
\* are None (the "_" class tag it adds is not modelled)
ObjectToJson(obj) ==
    IF IsDict(obj)
    THEN LET kept == SelectSeq(obj.v, LAMBDA e : e[2] # None)
         IN Dict([i \in 1..Len(kept) |-> <<kept[i][1], ObjectToJson(kept[i][2])>>])
    ELSE IF IsList(obj)
    THEN List([i \in 1..Len(obj.v) |-> ObjectToJson(obj.v[i])])
    ELSE obj

\* PyrogramResponse(hostname).build(_input) at time() = t
build(_input, hostname, t) ==
    process_file_ids(ObjectToJson(replace_enum_types_with_names(_input)),
                     Origin(hostname), t)

----------------------------------------------------------------------------
(* The trees process_file_ids is given *)

Pending == [t |-> "pending", v |-> <<>>]

\* no request handled yet
NoReq == [path |-> "", arg |-> None, host |-> "", how |-> "", at |-> 0]
NoResp == [status |-> 0, detail |-> "", body |-> None]

RequestHost == "api.example.org"

FileIds == {"AgAD", "BQACAgIAAx0"}
MimeTypes == {"image/png", ""}
SmallFileIdKey == <<"small", "file", "id">>
SmallMimeTypeKey == <<"small", "mime", "type">>
TreeKeys == {FileIdKey, SmallFileIdKey, MimeTypeKey, <<"photo">>, <<"text">>}

Leaves == {Str("hello"), Num(7)}

\* the one-level trees the larger ones are put together from
SeedTrees ==
    {Dict(<<>>), List(<<>>)}
    \cup {Dict(<<<<FileIdKey, Str(f)>>>>) : f \in FileIds}
    \cup {List(<<x>>) : x \in Leaves}

\* the values a field of the decoded JSON can hold under a key: a media id is
\* a string, a mime type is a string
ValuesFor(key) ==
    IF IsMediaKey(key) THEN {Str(f) : f \in FileIds}
    ELSE IF key \in {MimeTypeKey, SmallMimeTypeKey} THEN {Str(m) : m \in MimeTypes}
    ELSE Leaves \cup SeedTrees

RECURSIVE Size(_)
RECURSIVE SizeAll(_, _)
\* the number of nodes of a tree
Size(x) ==
    IF IsDict(x) THEN 1 + SizeAll(x.v, TRUE)
    ELSE IF IsList(x) THEN 1 + SizeAll(x.v, FALSE)
    ELSE 1

SizeAll(items, keyed) ==
    IF items = <<>> THEN 0
    ELSE Size(IF keyed THEN Head(items)[2] ELSE Head(items)) + SizeAll(Tail(items), keyed)

Idle ==
    /\ now = 0
    /\ ticks = 0
    /\ minted = NoToken
    /\ data = Dict(<<>>)
    /\ result = Pending
    /\ lifespan = "serving"
    /\ client = "started"
    /\ starts = 1
    /\ stops = 0
    /\ handled = 0
    /\ req = NoReq
    /\ backend = None
    /\ resp = NoResp

InitTree ==
    /\ data \in SeedTrees
    /\ result = Pending
    /\ now = 0 /\ ticks = 0 /\ minted = NoToken
    /\ lifespan = "serving" /\ client = "started" /\ starts = 1 /\ stops = 0
    /\ handled = 0 /\ req = NoReq /\ backend = None /\ resp = NoResp

serverVars == <<lifespan, client, starts, stops, handled, req, backend, resp>>
clockVars == <<now, ticks, minted>>

\* the decoded JSON has one more field
AddEntry(key, value) ==
    /\ result = Pending
    /\ IsDict(data)
    /\ ~HasKey(data.v, key)
    /\ Size(data) + Size(value) <= MaxNodes
    /\ data' = Dict(Append(data.v, <<key, value>>))
    /\ UNCHANGED <<result, clockVars, serverVars>>

\* the decoded JSON list has one more element
AddItem(value) ==
    /\ result = Pending
    /\ IsList(data)
    /\ Size(data) + Size(value) <= MaxNodes
    /\ data' = List(Append(data.v, value))
    /\ UNCHANGED <<result, clockVars, serverVars>>

\* the decoded JSON is the value of a field of an outer object
WrapDict(key) ==
    /\ result = Pending
    /\ ~IsMediaKey(key) /\ key \notin {MimeTypeKey, SmallMimeTypeKey}
    /\ Size(data) < MaxNodes
    /\ data' = Dict(<<<<key, data>>>>)
    /\ UNCHANGED <<result, clockVars, serverVars>>

\* the decoded JSON is the element of an outer list
WrapList ==
    /\ result = Pending
    /\ Size(data) < MaxNodes
    /\ data' = List(<<data>>)
    /\ UNCHANGED <<result, clockVars, serverVars>>

\* self.process_file_ids(data)
ProcessFileIds ==
    /\ result = Pending
    /\ result' = process_file_ids(data, Origin(RequestHost), now)
    /\ UNCHANGED <<data, clockVars, serverVars>>

NextTree ==
    \/ \E key \in TreeKeys : \E value \in ValuesFor(key) : AddEntry(key, value)
    \/ \E value \in Leaves \cup SeedTrees : AddItem(value)
    \/ \E key \in TreeKeys : WrapDict(key)
    \/ WrapList
    \/ ProcessFileIds

SpecTree == InitTree /\ [][NextTree]_vars

----------------------------------------------------------------------------
(* Claims about process_file_ids *)

IsUrlKey(key) == key = FileUrlKey \/ (Len(key) >= 3 /\ SubSeq(key, Len(key) - 1, Len(key)) = FileUrlKey)

RECURSIVE CountFields(_, _)
RECURSIVE CountFieldsAll(_, _, _)
\* the number of fields, at any depth, whose key is a media key (media) or a
\* url key (~media)
CountFields(x, media) ==
    IF IsDict(x) THEN CountFieldsAll(x.v, TRUE, media)
    ELSE IF IsList(x) THEN CountFieldsAll(x.v, FALSE, media)
    ELSE 0

CountFieldsAll(items, keyed, media) ==
    IF items = <<>> THEN 0
    ELSE (IF keyed /\ (IF media THEN IsMediaKey(Head(items)[1])
                                ELSE IsUrlKey(Head(items)[1]))
          THEN 1 ELSE 0)
         + CountFields(IF keyed THEN Head(items)[2] ELSE Head(items), media)
         + CountFieldsAll(Tail(items), keyed, media)

RECURSIVE UrlsRedeem(_, _)
\* every media field of the output has its url sibling, whose token redeems
\* at time t to a payload holding the media field's value
UrlsRedeem(x, t) ==
    IF IsDict(x)
    THEN \A i \in 1..Len(x.v) :
            /\ UrlsRedeem(x.v[i][2], t)
            /\ IsMediaKey(x.v[i][1]) =>
                 LET url == DictGet(x.v, NewKey(x.v[i][1]), None)
                 IN /\ url.t = "url"
                    /\ LET payload == DecryptJson(url.v.token, t)
                       IN /\ payload # InvalidToken
                          /\ DictGet(payload.v, FileIdKey, None) = x.v[i][2]
    ELSE IF IsList(x) THEN \A i \in 1..Len(x.v) : UrlsRedeem(x.v[i], t)
    ELSE TRUE

\* C1: the url fields of the output correspond one-to-one to the media fields
\* of the input: as many `file_url`/`*_file_url` fields come out as
\* `file_id`/`*_file_id` fields went in, at any depth and inside sequences of
\* more than one element, and each url's token redeems to the field's value.
C1_MediaCoverage ==
    result # Pending =>
        /\ CountFields(result, FALSE) = CountFields(data, TRUE)
        /\ UrlsRedeem(result, now)

RECURSIVE IsSorted(_)
IsSorted(items) ==
    Len(items) < 2 \/ (KeyLess(items[1][1], items[2][1]) /\ IsSorted(Tail(items)))

RECURSIVE SameUpToKeyOrder(_, _)
\* b is a with the keys of every mapping sorted and nothing else changed
SameUpToKeyOrder(a, b) ==
    IF a.t # b.t THEN FALSE
    ELSE IF IsDict(a)
    THEN /\ DictKeys(a.v) = DictKeys(b.v)
         /\ Len(a.v) = Len(b.v)
         /\ IsSorted(b.v)
         /\ \A i \in 1..Len(a.v) :
                SameUpToKeyOrder(a.v[i][2], DictGet(b.v, a.v[i][1], None))
    ELSE IF IsList(a)
    THEN /\ Len(a.v) = Len(b.v)
         /\ \A i \in 1..Len(a.v) : SameUpToKeyOrder(a.v[i], b.v[i])
    ELSE a = b

\* C10: a tree with no media field at any depth comes back structurally
\* identical, only with every mapping's keys sorted: same key sets, sequences
\* (empty ones and ones of two or more elements included) of the same length
\* and order, scalars unchanged.
C10_NoMediaIdentity ==
    (result # Pending /\ CountFields(data, TRUE) = 0) =>
        SameUpToKeyOrder(data, result)

----------------------------------------------------------------------------
(* The token codec and GET /media/{media} *)

\* the seconds the clock can advance by in one step
Jumps == {1, TTL - 1}

\* the token strings a client can send once `tok` was handed out: the token as
\* minted, with its "=" put back, with a character changed, with its last
\* character cut off, one made under another key, or none of these
Candidates(tok) ==
    LET Sent(how, media) == [how |-> how, media |-> media]
    IN {Sent("garbage", [ts |-> 0, key |-> "", sig |-> FALSE, plain |-> JsonDumps(None),
                         bytes |-> 0, sym |-> 5, pad |-> 0])}
       \cup (IF tok = NoToken THEN {}
             ELSE {Sent("minted", tok),
                   Sent("padded", EncryptAtTime(tok.plain, tok.ts)),
                   Sent("tampered", [tok EXCEPT !.sig = FALSE]),
                   Sent("truncated", [tok EXCEPT !.sym = @ - 1]),
                   Sent("foreign", [tok EXCEPT !.key = "OTHER_KEY"])})

HTTPException(status_code, detail) ==
    [status |-> status_code, detail |-> detail, body |-> None]

\* data.get("mime_type"): no default content type
MediaTypeNoDefault(payload) == DictGet(payload.v, MimeTypeKey, None)

\* data.get("mime_type", "image/png")
MediaType(payload) == DictGet(payload.v, MimeTypeKey, Str("image/png"))

\* StreamingResponse(client.stream_media(file_id), media_type=media_type)
StreamingResponse(file_id, media_type) ==
    [status |-> 200, detail |-> "",
     body |-> [t |-> "stream", v |-> [file_id |-> file_id, media_type |-> media_type]]]

\* get_media(media) at time() = t: the response and the backend call made
get_media(media, t) ==
    LET payload == DecryptJson(media, t)
    IN IF payload = InvalidToken
       THEN [resp |-> HTTPException(400, "Invalid media token"), backend |-> None]
       ELSE LET file_id == DictGet(payload.v, FileIdKey, None)
            IN [resp |-> StreamingResponse(file_id, MediaType(payload)),
                backend |-> [t |-> "stream_media", v |-> file_id]]

\* the server takes a request when it is serving and has none at hand
Accepts == lifespan = "serving" /\ req = NoReq /\ handled < MaxHandled

\* PyrogramResponse.file_id_ mints the token of one media field
Mint(file_id, mime_type) ==
    /\ lifespan = "serving"
    /\ minted' = file_id_(Origin(RequestHost), Str(file_id), Str(mime_type), now).v.token
    /\ data' = IF mime_type = ""
               THEN Dict(<<<<FileIdKey, Str(file_id)>>>>)
               ELSE Dict(<<<<FileIdKey, Str(file_id)>>, <<MimeTypeKey, Str(mime_type)>>>>)
    /\ result' = Pending
    /\ UNCHANGED <<now, ticks, serverVars>>

\* time passes
Tick(d) ==
    /\ ticks < MaxTicks
    /\ now' = now + d
    /\ ticks' = ticks + 1
    /\ UNCHANGED <<minted, data, result, serverVars>>

\* GET /media/{media}; result is what decrypt_json returned or raised
GetMedia(sent) ==
    /\ Accepts
    /\ handled' = handled + 1
    /\ req' = [path |-> "/media", arg |-> [t |-> "token", v |-> sent.media],
               host |-> RequestHost, how |-> sent.how, at |-> now]
    /\ result' = DecryptJson(sent.media, now)
    /\ resp' = get_media(sent.media, now).resp
    /\ backend' = get_media(sent.media, now).backend
    /\ UNCHANGED <<now, ticks, minted, data, lifespan, client, starts, stops>>

\* the response has gone out
Respond ==
    /\ req # NoReq
    /\ req' = NoReq
    /\ backend' = None
    /\ resp' = NoResp
    /\ UNCHANGED <<lifespan, client, starts, stops, handled, now, ticks, minted,
                   data, result>>

InitToken == Idle

NextToken ==
    \/ \E f \in FileIds : \E m \in MimeTypes : Mint(f, m)
    \/ \E d \in Jumps : Tick(d)
    \/ \E sent \in Candidates(minted) : GetMedia(sent)
    \/ Respond

SpecToken == InitToken /\ [][NextToken]_vars

----------------------------------------------------------------------------
(* Claims about the token codec and GET /media/{media} *)

\* C4: a token as minted is redeemed when it is one second younger than the
\* 3600-second window, and fails with InvalidToken when it is one second
\* older; every token older than the window is rejected.
C4_Expiry ==
    (result # Pending /\ req.how = "minted") =>
        LET age == req.at - req.arg.v.ts
        IN /\ age = TTL - 1 => result # InvalidToken
           /\ age = TTL + 1 => result = InvalidToken
           /\ age > TTL => result = InvalidToken

C4_Witness ==
    /\ req.how = "minted"
    /\ req.at - req.arg.v.ts = TTL + 1
    /\ result = InvalidToken

C8_MediaErrors ==
    req.path = "/media" =>
        LET tok == req.arg.v
            payload == tok.plain.doc
        IN IF req.how \notin {"minted", "padded"} \/ req.at - tok.ts > TTL
           THEN /\ resp = [status |-> 400, detail |-> "Invalid media token", body |-> None]
                /\ backend = None
           ELSE /\ resp.status = 200
                /\ backend = [t |-> "stream_media", v |-> DictGet(payload.v, FileIdKey, None)]
                /\ resp.body.v.file_id = DictGet(payload.v, FileIdKey, None)
                /\ resp.body.v.media_type =
                      IF HasKey(payload.v, MimeTypeKey)
                      THEN DictGet(payload.v, MimeTypeKey, None)
                      ELSE Str("image/png")

C8_Witness ==
    /\ req.path = "/media"
    /\ req.how = "minted"
    /\ req.at - req.arg.v.ts > TTL
    /\ resp.status = 400
    /\ backend = None

----------------------------------------------------------------------------
(* The backend: client.get_chat and client.get_chat_history *)

\* pyrogram.enums.ChatType
ChatTypes == {"PRIVATE", "BOT", "GROUP", "SUPERGROUP", "CHANNEL"}

\* the exceptions the handlers catch, and one they do not
BackendErrors == {"UsernameNotOccupied", "ChannelPrivate", "FloodWait"}

Raised(exc) == [t |-> "raise", v |-> exc]

Hostnames == {"localhost", RequestHost}

\* a pyrogram.types.ChatPhoto
ChatPhoto(f) ==
    Dict(<<<<SmallFileIdKey, Str(f)>>, <<<<"big", "file", "id">>, Str(f)>>>>)

\* a pyrogram.types.Chat of the given type, with or without a photo
Chat(type, photo) ==
    Dict(<<<<<<"type">>, Enum(type)>>, <<<<"id">>, Num(1)>>, <<<<"photo">>, photo>>>>)

Chats ==
    {Chat(type, photo) : type \in ChatTypes,
                         photo \in {None} \cup {ChatPhoto(f) : f \in FileIds}}

\* a pyrogram.types.Message: its id, the chat it belongs to, its text, and a
\* photo when it has one
Message(id, type, photo) ==
    Dict(<<<<<<"id">>, Num(id)>>, <<<<"chat">>, Chat(type, None)>>,
           <<<<"text">>, Str("hello")>>, <<<<"photo">>, photo>>>>)

MessagePhotos == {None, Dict(<<<<FileIdKey, Str("AgAD")>>>>)}

\* what client.get_chat_history can yield: up to MaxMsgs messages, newest
\* first, ids descending
Histories ==
    UNION {{[i \in 1..n |-> Message(n + 1 - i, types[i], photos[i])] :
                types \in [1..n -> ChatTypes], photos \in [1..n -> MessagePhotos]} :
           n \in 0..MaxMsgs}

\* obj.type, message.chat.type
TypeOf(obj) == DictGet(obj.v, <<"type">>, None).v
ChatOf(message) == DictGet(message.v, <<"chat">>, None)

----------------------------------------------------------------------------
(* The handlers *)

JSONResponse(content) == [status |-> 200, detail |-> "", body |-> content]

\* an exception no handler catches: the server answers 500
ServerError == HTTPException(500, "Internal Server Error")

\* str(e)
ErrorText(exc) ==
    IF exc = "UsernameNotOccupied" THEN "[400 USERNAME_NOT_OCCUPIED]"
    ELSE IF exc = "ChannelPrivate" THEN "[406 CHANNEL_PRIVATE]"
    ELSE "[420 FLOOD_WAIT_X]"

\* a chat type the gateway also lets through: direct-message chats
AllowedChatTypesWithPrivate == {"CHANNEL", "GROUP", "SUPERGROUP", "PRIVATE"}

\* (ChatType.CHANNEL, ChatType.GROUP, ChatType.SUPERGROUP,)
AllowedChatTypes == {"CHANNEL", "GROUP", "SUPERGROUP"}

\* except (UsernameNotOccupied,) only: ChannelPrivate answered 403
BackendErrorResponsePrivate403(exc) ==
    IF exc = "UsernameNotOccupied" THEN HTTPException(400, ErrorText(exc))
    ELSE IF exc = "ChannelPrivate" THEN HTTPException(403, ErrorText(exc))
    ELSE ServerError

\* except (UsernameNotOccupied, ChannelPrivate,) as e:
\*     raise HTTPException(status_code=400, detail=str(e))
BackendErrorResponse(exc) ==
    IF exc \in {"UsernameNotOccupied", "ChannelPrivate"}
    THEN HTTPException(400, ErrorText(exc))
    ELSE ServerError

\* get_chat: the response to what client.get_chat(username) returned or raised
get_chat(got, hostname, t) ==
    IF got.t = "raise" THEN BackendErrorResponse(got.v)
    ELSE IF TypeOf(got) \notin AllowedChatTypes
    THEN HTTPException(403, "This is not channel or group")
    ELSE JSONResponse(build(got, hostname, t))

\* the kind check run on every message
ChecksKindAlways(i) == TRUE

\* `not i`: the kind check runs on the first message only (i counts from 1)
ChecksKind(i) == i = 1

\* messages.insert(0, item)
CollectFirst(messages, item) == <<item>> \o messages

\* messages.append(item)
Collect(messages, item) == Append(messages, item)

RECURSIVE get_messages_loop(_, _, _, _, _)
\* `async for i, message in a.enumerate(resp)` from the i-th message on, and
\* the return after the loop
get_messages_loop(history, i, messages, hostname, t) ==
    IF i > Len(history) THEN JSONResponse(List(messages))
    ELSE
        LET message == history[i]
        IN IF ChecksKind(i) /\ TypeOf(ChatOf(message)) \notin AllowedChatTypes
           THEN HTTPException(403, "This is not channel or group")
           ELSE get_messages_loop(history, i + 1,
                    Collect(messages,
                            build(Dict(DictDel(message.v, <<"chat">>)), hostname, t)),
                    hostname, t)

\* get_messages: the response to what iterating client.get_chat_history gave,
\* an exception raised by the first fetch or the messages yielded
get_messages(got, hostname, t) ==
    IF got.t = "raise" THEN BackendErrorResponse(got.v)
    ELSE get_messages_loop(got.v, 1, <<>>, hostname, t)

----------------------------------------------------------------------------
(* lifespan_wrapper and the requests served inside it *)

Init ==
    /\ lifespan = "init"
    /\ client = "new"
    /\ starts = 0
    /\ stops = 0
    /\ handled = 0
    /\ req = NoReq
    /\ backend = None
    /\ resp = NoResp
    /\ now = 0 /\ ticks = 0 /\ minted = NoToken
    /\ data = Dict(<<>>) /\ result = Pending

treeVars == <<data, result>>

\* await client.start() returns; main_app_lifespan is entered and the wrapper
\* yields: the application serves
Startup ==
    /\ lifespan = "init"
    /\ client' = "started"
    /\ starts' = starts + 1
    /\ lifespan' = "serving"
    /\ UNCHANGED <<stops, handled, req, backend, resp, clockVars, treeVars>>

\* await client.start() raises: the wrapper never yields
StartupFails ==
    /\ lifespan = "init"
    /\ lifespan' = "failed"
    /\ UNCHANGED <<client, starts, stops, handled, req, backend, resp, clockVars, treeVars>>

\* the serving phase ends, main_app_lifespan exits and the wrapper runs on
\* past its yield: await client.stop()
Shutdown ==
    /\ lifespan = "serving"
    /\ client' = "stopped"
    /\ stops' = stops + 1
    /\ lifespan' = "done"
    /\ UNCHANGED <<starts, handled, req, backend, resp, clockVars, treeVars>>

\* the serving phase ends with an exception, thrown into the wrapper at its
\* yield: it leaves the `async with` and the wrapper, and the line after the
\* block is not run
ShutdownError ==
    /\ lifespan = "serving"
    /\ lifespan' = "crashed"
    /\ UNCHANGED <<client, starts, stops, handled, req, backend, resp, clockVars, treeVars>>

\* a handler answers a request: the response and what the backend gave
Answer(path, arg, hostname, got, out) ==
    /\ handled' = handled + 1
    /\ req' = [path |-> path, arg |-> arg, host |-> hostname, how |-> "", at |-> now]
    /\ backend' = got
    /\ resp' = out
    /\ UNCHANGED <<lifespan, client, starts, stops, clockVars, treeVars>>

\* GET /
ReadRoot ==
    /\ Accepts
    /\ Answer("/", None, RequestHost, None,
              [status |-> 307, detail |-> "", body |-> [t |-> "redirect", v |-> "/docs"]])

\* GET /chat/{username}
GetChat(username, hostname, got) ==
    /\ Accepts
    /\ Answer("/chat", Str(username), hostname, got, get_chat(got, hostname, now))

\* GET /messages/{username}
GetMessages(username, hostname, got) ==
    /\ Accepts
    /\ Answer("/messages", Str(username), hostname, got, get_messages(got, hostname, now))

\* GET /healthz
GetHealth(got) ==
    /\ Accepts
    /\ Answer("/healthz", None, RequestHost, got,
              IF got.t = "raise" THEN ServerError
              ELSE [status |-> 200, detail |-> "", body |-> None])

Next ==
    \/ Startup
    \/ StartupFails
    \/ Shutdown
    \/ ShutdownError
    \/ ReadRoot
    \/ \E hostname \in Hostnames :
          \E got \in Chats \cup {Raised(exc) : exc \in BackendErrors} :
             GetChat("durov", hostname, got)
    \/ \E hostname \in Hostnames :
          \E got \in {List(h) : h \in Histories} \cup {Raised(exc) : exc \in BackendErrors} :
             GetMessages("durov", hostname, got)
    \/ \E got \in {Dict(<<<<<<"id">>, Num(1)>>>>), Raised("FloodWait")} : GetHealth(got)
    \/ \E sent \in Candidates(minted) : GetMedia(sent)
    \/ Respond

Spec == Init /\ [][Next]_vars

----------------------------------------------------------------------------
(* Claims about the handlers and the lifespan *)

Yielded == backend.v

C3_FirstOnly ==
    (req.path = "/messages") =>
        (resp.status = 403 /\ resp.body = None)
          <=> (/\ backend.t = "list"
               /\ Yielded # <<>>
               /\ TypeOf(ChatOf(Yielded[1])) \notin {"CHANNEL", "GROUP", "SUPERGROUP"})

C3_Witness ==
    /\ req.path = "/messages"
    /\ backend.t = "list"
    /\ Len(Yielded) >= 2
    /\ TypeOf(ChatOf(Yielded[1])) = "CHANNEL"
    /\ TypeOf(ChatOf(Yielded[2])) = "PRIVATE"
    /\ resp.status = 200

RECURSIVE HasEnum(_)
\* an Enum member is left somewhere in the tree
HasEnum(x) ==
    IF x.t = "enum" THEN TRUE
    ELSE IF IsDict(x) THEN \E i \in 1..Len(x.v) : HasEnum(x.v[i][2])
    ELSE IF IsList(x) THEN \E i \in 1..Len(x.v) : HasEnum(x.v[i])
    ELSE FALSE

\* C7: GET /chat answers 403 with no chat data when the handle resolves to a
\* chat that is not a channel, group or supergroup, and 200 with the
\* normalized chat when it is one: no response exposes a disallowed chat.
C7_KindFilter ==
    (req.path = "/chat" /\ backend.t = "dict") =>
        IF TypeOf(backend) \in {"CHANNEL", "GROUP", "SUPERGROUP"}
        THEN /\ resp.status = 200
             /\ resp.body.t = "dict"
             /\ ~HasEnum(resp.body)
             /\ DictGet(resp.body.v, <<"type">>, None) = Str(Title(TypeOf(backend)))
             /\ DictGet(resp.body.v, <<"id">>, None) = DictGet(backend.v, <<"id">>, None)
        ELSE /\ resp.status = 403
             /\ resp.body = None

C7_Witness ==
    /\ req.path = "/chat"
    /\ backend.t = "dict"
    /\ TypeOf(backend) = "PRIVATE"
    /\ resp.status = 403

\* C9: the client is started once before the application serves and stopped
\* once after; nothing is served while it is not started; once a start has
\* succeeded and the serving phase is over - with an error too - the client
\* has been stopped; after a failed start nothing is served.
C9_Lifecycle ==
    /\ starts <= 1 /\ stops <= 1
    /\ lifespan = "serving" => (client = "started" /\ starts = 1 /\ stops = 0)
    /\ handled > 0 => starts = 1
    /\ lifespan = "failed" => (handled = 0 /\ starts = 0)
    /\ (lifespan \in {"done", "crashed"} /\ starts = 1) =>
          (stops = 1 /\ client = "stopped")

====
